---------------------------- MODULE Spec2Model ----------------------------
(***************************************************************************)
(* A model of chatgpt_export_cleaner.py: the text normalizer (clean_text), *)
(* the mapping traversal and message extractor                             *)
(* (extract_messages_from_mapping), the pair builder (messages_to_pairs)   *)
(* and the orchestration of main().                                        *)
(*                                                                         *)
(* Text is a sequence of Unicode code points.  The absent string (Python's *)
(* None) is the one-element sequence NoneStr, which is no text.            *)
(***************************************************************************)
EXTENDS Integers, Sequences, FiniteSets, TLC

VARIABLES
    \* clean_text, applied once and then to its own output
    cpc, s, out, out2,
    \* extract_messages_from_mapping
    xpc, conv, current, seen, ordered_nodes, idx, msgs,
    \* the flattening of one message's content parts
    fpc, parts, blob,
    \* messages_to_pairs
    ppc, messages, pidx, buffer_user, pairs,
    \* main
    mpc, doc, queue, dirs, files, log, exit_code, all_convos, all_pairs, skipped

cleanVars   == <<cpc, s, out, out2>>
extractVars == <<xpc, conv, current, seen, ordered_nodes, idx, msgs>>
flattenVars == <<fpc, parts, blob>>
pairVars    == <<ppc, messages, pidx, buffer_user, pairs>>
mainVars    == <<mpc, doc, queue, dirs, files, log, exit_code, all_convos,
                 all_pairs, skipped>>
vars == <<cleanVars, extractVars, flattenVars, pairVars, mainVars>>

---------------------------------------------------------------------------
(* Characters: the code points the source names.                           *)

LF    == 10
CR    == 13
TAB   == 9
SP    == 32
QUOTE == 34
NBSP  == 160
\* The three characters of the bullet literal as the source file spells it.
BulletA == 226
BulletB == 8364
BulletC == 162

BULLET == <<BulletA, BulletB, BulletC>>
NoneStr == <<-1>>

\* A letter stands for every character no step of clean_text treats specially.
Letters == {97}

\* str.strip() and str.isspace(): the whitespace among the modelled characters.
WhiteSpace == {TAB, LF, CR, SP, NBSP}

---------------------------------------------------------------------------
(* Sequence helpers.                                                       *)

RECURSIVE Concat(_)
Concat(ss) == IF ss = <<>> THEN <<>> ELSE Head(ss) \o Concat(Tail(ss))

\* sep.join(ss)
RECURSIVE Join(_, _)
Join(ss, sep) ==
    IF ss = <<>> THEN <<>>
    ELSE IF Len(ss) = 1 THEN Head(ss)
    ELSE Head(ss) \o sep \o Join(Tail(ss), sep)

RECURSIVE Reverse(_)
Reverse(q) == IF q = <<>> THEN <<>> ELSE Reverse(Tail(q)) \o <<Head(q)>>

IsPrefix(p, q) == Len(p) <= Len(q) /\ SubSeq(q, 1, Len(p)) = p

\* str.replace(old, new): left to right, non-overlapping.
RECURSIVE Replace(_, _, _)
Replace(str, old, new) ==
    IF Len(str) < Len(old) THEN str
    ELSE IF IsPrefix(old, str)
         THEN new \o Replace(SubSeq(str, Len(old) + 1, Len(str)), old, new)
         ELSE <<Head(str)>> \o Replace(Tail(str), old, new)

RECURSIVE LStrip(_)
LStrip(str) ==
    IF str # <<>> /\ Head(str) \in WhiteSpace THEN LStrip(Tail(str)) ELSE str

RECURSIVE RStrip(_)
RStrip(str) ==
    IF str # <<>> /\ str[Len(str)] \in WhiteSpace
    THEN RStrip(SubSeq(str, 1, Len(str) - 1)) ELSE str

Strip(str) == RStrip(LStrip(str))

\* unicodedata.normalize("NFKC", s) on the modelled characters: the no-break
\* space has the compatibility decomposition SPACE; the others are unchanged.
RECURSIVE NFKC(_)
NFKC(str) ==
    IF str = <<>> THEN <<>>
    ELSE <<IF Head(str) = NBSP THEN SP ELSE Head(str)>> \o NFKC(Tail(str))

\* The number of c at the end of str.
RECURSIVE TrailingRun(_, _)
TrailingRun(str, c) ==
    IF str # <<>> /\ str[Len(str)] = c
    THEN 1 + TrailingRun(SubSeq(str, 1, Len(str) - 1), c) ELSE 0

\* re.sub(r'""+$', '"', s): $ matches at the end and before a final newline.
SubTrailingQuotes(str) ==
    LET nl   == str # <<>> /\ str[Len(str)] = LF
        body == IF nl THEN SubSeq(str, 1, Len(str) - 1) ELSE str
        n    == TrailingRun(body, QUOTE)
        cut  == SubSeq(body, 1, Len(body) - n) \o <<QUOTE>>
    IN IF n >= 2 THEN (IF nl THEN cut \o <<LF>> ELSE cut) ELSE str

\* The number of c at the start of str.
RECURSIVE LeadingRun(_, _)
LeadingRun(str, c) ==
    IF str # <<>> /\ Head(str) = c THEN 1 + LeadingRun(Tail(str), c) ELSE 0

\* CapNewlines with the pattern \n{4,}: a run of three is left alone.
RECURSIVE CapNewlinesAtFour(_)
CapNewlinesAtFour(str) ==
    IF str = <<>> THEN <<>>
    ELSE LET n == LeadingRun(str, LF)
         IN IF n >= 4 THEN <<LF, LF>> \o CapNewlinesAtFour(SubSeq(str, n + 1, Len(str)))
            ELSE IF n >= 1
                 THEN SubSeq(str, 1, n) \o CapNewlinesAtFour(SubSeq(str, n + 1, Len(str)))
                 ELSE <<Head(str)>> \o CapNewlinesAtFour(Tail(str))

\* re.sub(r"\n{3,}", "\n\n", s)
RECURSIVE CapNewlines(_)
CapNewlines(str) ==
    IF str = <<>> THEN <<>>
    ELSE LET n == LeadingRun(str, LF)
         IN IF n >= 3 THEN <<LF, LF>> \o CapNewlines(SubSeq(str, n + 1, Len(str)))
            ELSE IF n >= 1
                 THEN SubSeq(str, 1, n) \o CapNewlines(SubSeq(str, n + 1, Len(str)))
                 ELSE <<Head(str)>> \o CapNewlines(Tail(str))

clean_text(str) ==
    IF str = NoneStr THEN <<>>
    ELSE LET s1 == NFKC(str)
             s2 == Replace(Replace(s1, <<CR, LF>>, <<LF>>), <<CR>>, <<LF>>)
             s3 == Replace(Replace(s2, <<TAB>> \o BULLET, BULLET),
                           <<TAB>>, <<SP, SP, SP, SP>>)
             s4 == Replace(Replace(s3, BULLET \o <<TAB>>, BULLET \o <<SP>>),
                           BULLET \o <<SP, SP>>, BULLET \o <<SP>>)
             s5 == Replace(s4, <<NBSP>>, <<SP>>)
             s6 == SubTrailingQuotes(Strip(s5))
             s7 == CapNewlines(s6)
         IN Strip(s7)

---------------------------------------------------------------------------
(* The normalizer as a process: clean_text applied to an input, then to    *)
(* its own output.                                                         *)

MaxTokens == 5

\* The inputs: None, and every text of at most MaxTokens tokens, a token
\* being one character or the bullet literal.
Tokens == {<<c>> : c \in Letters \cup {SP, LF, CR, TAB, QUOTE, NBSP}} \cup {BULLET}
CleanInputs ==
    {NoneStr} \cup
    {Concat(t) : t \in UNION {[1..n -> Tokens] : n \in 0..MaxTokens}}

IdleClean   == cpc = "idle" /\ s = <<>> /\ out = <<>> /\ out2 = <<>>

CleanStart ==
    /\ cpc = "start" /\ s \in CleanInputs /\ out = <<>> /\ out2 = <<>>

CleanOnce ==
    /\ cpc = "start"
    /\ out' = clean_text(s)
    /\ cpc' = "once"
    /\ UNCHANGED <<s, out2, extractVars, flattenVars, pairVars, mainVars>>

CleanTwice ==
    /\ cpc = "once"
    /\ out2' = clean_text(out)
    /\ cpc' = "twice"
    /\ UNCHANGED <<s, out, extractVars, flattenVars, pairVars, mainVars>>

HasRun(str, c, n) ==
    \E i \in 1..Len(str) : i + n - 1 <= Len(str) /\ \A j \in i..(i + n - 1) : str[j] = c

Contains(str, c) == \E i \in 1..Len(str) : str[i] = c

---------------------------------------------------------------------------
(* extract_messages_from_mapping.                                          *)
(*                                                                         *)
(* A JSON object is a record; a key that is missing or null reads as None  *)
(* through dict.get, which is the string NoneVal for an identifier or a    *)
(* role and the tag "none" for an object or a list.  A conversation is     *)
(* [mapping: "missing" | "null" | "dict", map: key -> node, current_node], *)
(* a node is [parent, message], a message is                               *)
(* [payload, author, role, metadata, flag, content, content_type, parts,   *)
(* list] and a content part is [kind: "str" | "dict" | "other", text,      *)
(* content_type] (text = NoneStr: a dict with no text).                    *)

NoneVal == "<None>"

\* Python truthiness of an identifier: None and "" are falsy.
Truthy(id) == id # NoneVal /\ id # ""

TextTypes == {"text", "multimodal_text"}

\* conv.get("mapping", {}): the default only replaces a missing key.
MappingKeys(c) == IF c.mapping = "dict" THEN DOMAIN c.map ELSE {}

\* WalkCond without the cycle guard.
WalkCondNoGuard(c, cur, sn) == Truthy(cur) /\ cur \in MappingKeys(c)

\* The condition of the while loop; evaluating it raises TypeError when the
\* mapping is null and current is truthy ("current in None").
WalkRaises(c, cur) == Truthy(cur) /\ c.mapping = "null"
WalkCond(c, cur, sn) ==
    Truthy(cur) /\ cur \in MappingKeys(c) /\ cur \notin sn

\* AuthorOf without the remapping of tool and ChatGPT.
AuthorOfNoRemap(m) == IF m.author = "none" THEN "" ELSE m.role

\* (m.get("author") or {}).get("role", ""), then tool/ChatGPT -> assistant.
AuthorOf(m) ==
    LET a == IF m.author = "none" THEN "" ELSE m.role
    IN IF a \in {"tool", "ChatGPT"} THEN "assistant" ELSE a

\* (m.get("metadata") or {}).get("is_user_system_message")
FlagOf(m) == m.metadata = "dict" /\ m.flag

\* (m.get("content") or {}).get("content_type")
CTypeOf(m) == IF m.content = "none" THEN NoneVal ELSE m.content_type

\* content.get("parts") or []
PartsOf(m) ==
    IF m.content = "none" \/ m.parts = "none" THEN <<>> ELSE m.list

\* ChunkOf taking a dict part's text only from an audio transcription.
ChunkOfAudioOnly(p) ==
    IF p.kind = "str"
    THEN (IF Strip(p.text) # <<>> THEN <<p.text>> ELSE <<>>)
    ELSE IF p.kind = "dict" /\ p.content_type = "audio_transcription"
         THEN (IF p.text # NoneStr /\ p.text # <<>> THEN <<p.text>> ELSE <<>>)
         ELSE <<>>

\* One part's chunks: a str part whose strip() is non-empty, or the truthy
\* text of a dict part.
ChunkOf(p) ==
    IF p.kind = "str"
    THEN (IF Strip(p.text) # <<>> THEN <<p.text>> ELSE <<>>)
    ELSE IF p.kind = "dict"
         THEN (IF p.text # NoneStr /\ p.text # <<>> THEN <<p.text>> ELSE <<>>)
         ELSE <<>>

RECURSIVE Chunks(_)
Chunks(ps) == IF ps = <<>> THEN <<>> ELSE ChunkOf(Head(ps)) \o Chunks(Tail(ps))

\* "\n".join(chunks)
Flatten(ps) == Join(Chunks(ps), <<LF>>)

RoleOf(author) == IF author = "assistant" THEN "assistant" ELSE "user"

\* The body of the for loop over ordered_nodes: the messages one node adds.
ProcessNode(node) ==
    LET m      == node.message
        author == AuthorOf(m)
        text   == clean_text(Flatten(PartsOf(m)))
    IN IF ~m.payload THEN <<>>
       ELSE IF author = "system" /\ ~FlagOf(m) THEN <<>>
       ELSE IF CTypeOf(m) \notin TextTypes THEN <<>>
       ELSE IF text = <<>> THEN <<>>
       ELSE <<[role |-> RoleOf(author), text |-> text]>>

IdleExtract ==
    /\ xpc = "idle" /\ conv = <<>> /\ current = NoneVal /\ seen = {}
    /\ ordered_nodes = <<>> /\ idx = 0 /\ msgs = <<>>

\* The state after lines 83-86.
ExtractEntry(c) ==
    /\ xpc = "walk" /\ conv = c /\ current = c.current_node /\ seen = {}
    /\ ordered_nodes = <<>> /\ idx = 0 /\ msgs = <<>>

\* One iteration of the while loop (lines 89-93).  ordered_nodes holds the
\* keys of the nodes appended.
WalkStep ==
    /\ xpc = "walk"
    /\ ~WalkRaises(conv, current)
    /\ WalkCond(conv, current, seen)
    /\ seen' = seen \cup {current}
    /\ ordered_nodes' = Append(ordered_nodes, current)
    /\ current' = conv.map[current].parent
    /\ UNCHANGED <<xpc, conv, idx, msgs, cleanVars, flattenVars, pairVars, mainVars>>

\* The loop condition raises: the call ends with TypeError.
WalkRaise ==
    /\ xpc = "walk"
    /\ WalkRaises(conv, current)
    /\ xpc' = "raised"
    /\ UNCHANGED <<conv, current, seen, ordered_nodes, idx, msgs,
                   cleanVars, flattenVars, pairVars, mainVars>>

\* WalkEnd without ordered_nodes.reverse().
WalkEndNoReverse ==
    /\ xpc = "walk"
    /\ ~WalkRaises(conv, current)
    /\ ~WalkCond(conv, current, seen)
    /\ idx' = 1
    /\ xpc' = "extract"
    /\ UNCHANGED <<conv, current, seen, ordered_nodes, msgs,
                   cleanVars, flattenVars, pairVars, mainVars>>

\* The loop ends (lines 95-96).
WalkEnd ==
    /\ xpc = "walk"
    /\ ~WalkRaises(conv, current)
    /\ ~WalkCond(conv, current, seen)
    /\ ordered_nodes' = Reverse(ordered_nodes)
    /\ idx' = 1
    /\ xpc' = "extract"
    /\ UNCHANGED <<conv, current, seen, msgs, cleanVars, flattenVars, pairVars, mainVars>>

\* One iteration of the for loop (lines 98-137).
ExtractNode ==
    /\ xpc = "extract"
    /\ idx <= Len(ordered_nodes)
    /\ msgs' = msgs \o ProcessNode(conv.map[ordered_nodes[idx]])
    /\ idx' = idx + 1
    /\ UNCHANGED <<xpc, conv, current, seen, ordered_nodes,
                   cleanVars, flattenVars, pairVars, mainVars>>

\* return msgs (line 139)
ExtractReturn ==
    /\ xpc = "extract"
    /\ idx > Len(ordered_nodes)
    /\ xpc' = "done"
    /\ UNCHANGED <<conv, current, seen, ordered_nodes, idx, msgs,
                   cleanVars, flattenVars, pairVars, mainVars>>

NextExtract == WalkStep \/ WalkRaise \/ WalkEnd \/ ExtractNode \/ ExtractReturn

---------------------------------------------------------------------------
(* Inputs of extract_messages_from_mapping.                                *)

NumIds  == 3
MaxPath == 2

IdNames == <<"n1", "n2", "n3", "n4", "n5", "n6">>
Ids == {IdNames[i] : i \in 1..NumIds}

StrPart(txt)      == [kind |-> "str", text |-> txt, content_type |-> ""]
DictPart(txt, ct) == [kind |-> "dict", text |-> txt, content_type |-> ct]
OtherPart         == [kind |-> "other", text |-> NoneStr, content_type |-> ""]

\* A user message with the one part "a".
BaseMsg ==
    [payload |-> TRUE, author |-> "dict", role |-> "user", metadata |-> "none",
     flag |-> FALSE, content |-> "dict", content_type |-> "text",
     parts |-> "list", list |-> <<StrPart(<<97>>)>>]

\* "" is a missing role key (the default of .get), NoneVal a null one.
Roles == {"", NoneVal, "user", "assistant", "tool", "ChatGPT", "system", "other"}
Authors == {<<"none", "">>} \cup {<<"dict", r>> : r \in Roles}
Metas == {<<"none", FALSE>>, <<"dict", FALSE>>, <<"dict", TRUE>>}
CTypes == {NoneVal, "text", "multimodal_text", "code"}
PartLists ==
    {<<"none", <<>>>>, <<"list", <<>>>>, <<"list", <<StrPart(<<SP>>)>>>>,
     <<"list", <<StrPart(<<98>>)>>>>,
     <<"list", <<StrPart(<<98, SP>>), DictPart(<<97>>, "")>>>>}
Contents ==
    {<<"none", NoneVal, <<"none", <<>>>>>>}
    \cup {<<"dict", ct, pl>> : ct \in CTypes, pl \in PartLists}

MkMsg(a, md, c) ==
    [payload |-> TRUE, author |-> a[1], role |-> a[2], metadata |-> md[1],
     flag |-> md[2], content |-> c[1], content_type |-> c[2],
     parts |-> c[3][1], list |-> c[3][2]]

NoMsg == [BaseMsg EXCEPT !.payload = FALSE]

\* Every combination of author, metadata and content.
FullMessages ==
    {NoMsg} \cup {MkMsg(a, md, c) : a \in Authors, md \in Metas, c \in Contents}

\* The messages of the longer paths: each field varied with the others fixed.
PathMessages ==
    {NoMsg}
    \cup {MkMsg(a, <<"none", FALSE>>, <<"dict", "text", <<"list", <<StrPart(<<97>>)>>>>>>) :
            a \in Authors}
    \cup {MkMsg(<<"dict", "system">>, md, <<"dict", "text", <<"list", <<StrPart(<<97>>)>>>>>>) :
            md \in Metas}
    \cup {MkMsg(<<"dict", "assistant">>, <<"none", FALSE>>, <<"dict", ct, <<"list", <<StrPart(<<98>>)>>>>>>) :
            ct \in CTypes}
    \cup {MkMsg(<<"dict", "assistant">>, <<"none", FALSE>>, <<"dict", "text", pl>>) :
            pl \in PartLists}
    \cup {MkMsg(<<"dict", "assistant">>, <<"none", FALSE>>, <<"none", NoneVal, <<"none", <<>>>>>>)}

\* Arbitrary parent links (cycles, self-loops, stale and empty identifiers)
\* over at most NumIds nodes, each carrying the same message.
Links == Ids \cup {NoneVal, "", "stale"}
WalkConvs ==
    {[mapping |-> "dict", map |-> [k \in DOMAIN f |-> [parent |-> f[k], message |-> BaseMsg]],
      current_node |-> c] :
        f \in UNION {[K -> Links] : K \in SUBSET Ids}, c \in Links}
    \cup {[mapping |-> tag, map |-> <<>>, current_node |-> c] :
            tag \in {"missing", "null"}, c \in Links}

\* A chain n1 <- n2 <- ... <- nk with current_node nk.
Chain(ms) ==
    [mapping |-> "dict",
     map |-> [k \in {IdNames[i] : i \in 1..Len(ms)} |->
                LET i == CHOOSE j \in 1..Len(ms) : IdNames[j] = k
                IN [parent |-> IF i = 1 THEN NoneVal ELSE IdNames[i - 1],
                    message |-> ms[i]]],
     current_node |-> IF ms = <<>> THEN NoneVal ELSE IdNames[Len(ms)]]
ExtractConvs ==
    {Chain(<<m>>) : m \in FullMessages}
    \cup {Chain(ms) : ms \in UNION {[1..n -> PathMessages] : n \in 0..MaxPath}}
    \cup {[mapping |-> tag, map |-> <<>>, current_node |-> c] :
            tag \in {"missing", "null"}, c \in {NoneVal, "n1"}}

---------------------------------------------------------------------------
(* The function as a whole, for its callers.                               *)

\* The keys the while loop appends, leaf first.
RECURSIVE WalkFrom(_, _, _, _)
WalkFrom(c, cur, sn, acc) ==
    IF WalkCond(c, cur, sn)
    THEN WalkFrom(c, c.map[cur].parent, sn \cup {cur}, Append(acc, cur))
    ELSE acc

\* Only the first evaluation of the loop condition can raise: with a null
\* mapping the loop body is never entered.
ExtractRaises(c) == WalkRaises(c, c.current_node)

RECURSIVE ProcessNodes(_, _)
ProcessNodes(c, keys) ==
    IF keys = <<>> THEN <<>>
    ELSE ProcessNode(c.map[Head(keys)]) \o ProcessNodes(c, Tail(keys))

extract_messages_from_mapping(c) ==
    ProcessNodes(c, Reverse(WalkFrom(c, c.current_node, {}, <<>>)))

---------------------------------------------------------------------------
(* The flattening of one message's parts (lines 119-132): the blob handed  *)
(* to clean_text.                                                          *)

MaxParts == 3

PartKinds ==
    {StrPart(<<>>), StrPart(<<SP>>), StrPart(<<LF>>), StrPart(<<97>>),
     StrPart(<<SP, 98>>), DictPart(NoneStr, ""), DictPart(<<>>, ""),
     DictPart(<<SP>>, ""), DictPart(<<98>>, ""),
     DictPart(<<97>>, "audio_transcription"),
     DictPart(NoneStr, "audio_transcription"), OtherPart}

IdleFlatten == fpc = "idle" /\ parts = <<>> /\ blob = <<>>

FlattenStart ==
    /\ fpc = "parts" /\ blob = <<>>
    /\ parts \in UNION {[1..n -> PartKinds] : n \in 0..MaxParts}

FlattenParts ==
    /\ fpc = "parts"
    /\ blob' = Flatten(parts)
    /\ fpc' = "joined"
    /\ UNCHANGED <<parts, cleanVars, extractVars, pairVars, mainVars>>

---------------------------------------------------------------------------
(* messages_to_pairs.                                                      *)

MaxMsgs == 4

\* PairBody keeping the accumulator after an assistant message.
PairBodyNoClear(st, m) ==
    IF m.role = "user"
    THEN [st EXCEPT !.buffer_user =
              IF m.text # <<>> THEN Append(st.buffer_user, m.text)
              ELSE st.buffer_user]
    ELSE LET prompt == Join(st.buffer_user, <<LF, LF>>)
             emit   == st.buffer_user # <<>> /\ m.text # <<>>
         IN [buffer_user |-> st.buffer_user,
             pairs |-> IF emit
                       THEN Append(st.pairs, [prompt |-> prompt, completion |-> m.text])
                       ELSE st.pairs]

\* PairBody without the checks of the texts.
PairBodyNoTextCheck(st, m) ==
    IF m.role = "user"
    THEN [st EXCEPT !.buffer_user = Append(st.buffer_user, m.text)]
    ELSE [buffer_user |-> <<>>,
          pairs |-> IF st.buffer_user # <<>>
                    THEN Append(st.pairs, [prompt |-> Join(st.buffer_user, <<LF, LF>>),
                                           completion |-> m.text])
                    ELSE st.pairs]

\* One iteration of the for loop (lines 158-169) on accumulator st.
PairBody(st, m) ==
    IF m.role = "user"
    THEN [st EXCEPT !.buffer_user =
              IF m.text # <<>> THEN Append(st.buffer_user, m.text)
              ELSE st.buffer_user]
    ELSE LET prompt     == Join(st.buffer_user, <<LF, LF>>)
             completion == m.text
             emit       == /\ st.buffer_user # <<>> /\ m.text # <<>>
                           /\ prompt # <<>> /\ completion # <<>>
         IN [buffer_user |-> <<>>,
             pairs |-> IF emit
                       THEN Append(st.pairs, [prompt |-> prompt, completion |-> completion])
                       ELSE st.pairs]

RECURSIVE PairLoop(_, _)
PairLoop(st, ms) ==
    IF ms = <<>> THEN st ELSE PairLoop(PairBody(st, Head(ms)), Tail(ms))

messages_to_pairs(ms) == PairLoop([buffer_user |-> <<>>, pairs |-> <<>>], ms).pairs

PairMessages ==
    {[role |-> r, text |-> x] : r \in {"user", "assistant"}, x \in {<<>>, <<97>>, <<98>>}}

IdlePairs ==
    ppc = "idle" /\ messages = <<>> /\ pidx = 0 /\ buffer_user = <<>> /\ pairs = <<>>

PairsStart ==
    /\ ppc = "loop" /\ pidx = 1 /\ buffer_user = <<>> /\ pairs = <<>>
    /\ messages \in UNION {[1..n -> PairMessages] : n \in 0..MaxMsgs}

PairStep ==
    /\ ppc = "loop"
    /\ pidx <= Len(messages)
    /\ LET st == PairBody([buffer_user |-> buffer_user, pairs |-> pairs], messages[pidx])
       IN buffer_user' = st.buffer_user /\ pairs' = st.pairs
    /\ pidx' = pidx + 1
    /\ UNCHANGED <<ppc, messages, cleanVars, extractVars, flattenVars, mainVars>>

PairReturn ==
    /\ ppc = "loop"
    /\ pidx > Len(messages)
    /\ ppc' = "done"
    /\ UNCHANGED <<messages, pidx, buffer_user, pairs,
                   cleanVars, extractVars, flattenVars, mainVars>>

---------------------------------------------------------------------------
(* sanitize_filename.                                                      *)

max_length == 120

\* \w on ASCII titles, and the other characters the pattern keeps: - . space
IsSafeChar(c) ==
    c \in (48..57) \cup (65..90) \cup (97..122) \cup {95} \cup {45, 46, SP}

\* re.sub(r"[^\w\-. ]+", "_", title)
RECURSIVE SubUnsafe(_)
SubUnsafe(str) ==
    IF str = <<>> THEN <<>>
    ELSE IF IsSafeChar(Head(str)) THEN <<Head(str)>> \o SubUnsafe(Tail(str))
    ELSE LET rest == Tail(str)
         IN IF rest # <<>> /\ ~IsSafeChar(Head(rest)) THEN SubUnsafe(rest)
            ELSE <<95>> \o SubUnsafe(rest)

sanitize_filename(title) ==
    LET subbed == SubUnsafe(title)
        cut    == SubSeq(subbed, 1, IF Len(subbed) < max_length THEN Len(subbed) ELSE max_length)
        safe   == Strip(cut)
    IN IF safe # <<>> THEN safe
       ELSE <<99, 111, 110, 118, 101, 114, 115, 97, 116, 105, 111, 110>>

---------------------------------------------------------------------------
(* main(): the run as a process.  doc is the input file: [file: "absent" | *)
(* "unreadable" | "badjson" | "ok", shape: the decoded value's shape,      *)
(* convs: its conversation records].  files holds the artifacts written,   *)
(* log the messages reported, exit_code the process's exit status.         *)

MaxConvs == 2

DefaultTitle == <<67, 111, 110, 118, 101, 114, 115, 97, 116, 105, 111, 110>>

\* conv.get("title") or "Conversation"
TitleOf(c) == IF c.title = NoneStr \/ c.title = <<>> THEN DefaultTitle ELSE c.title

WithTitle(c, ttl) ==
    [mapping |-> c.mapping, map |-> c.map, current_node |-> c.current_node,
     title |-> ttl]

AsstMsg == [BaseMsg EXCEPT !.role = "assistant", !.list = <<StrPart(<<98>>)>>]

MainConvs ==
    {WithTitle(c, ttl) :
        c \in {Chain(<<>>), Chain(<<NoMsg>>), Chain(<<BaseMsg>>),
               Chain(<<BaseMsg, AsstMsg>>),
               [mapping |-> "null", map |-> <<>>, current_node |-> "n1"]},
        ttl \in {NoneStr, <<SP>>, <<97, 47, 63, 98>>}}

\* The shapes line 232-238 accept, and the shapes they reject.
GoodShapes == {"object_with_conversations", "array"}
BadShapes  == {"number", "string", "null", "object"}

Docs ==
    {[file |-> f, shape |-> "null", convs |-> <<>>] : f \in {"absent", "unreadable", "badjson"}}
    \cup {[file |-> "ok", shape |-> sh, convs |-> <<>>] : sh \in BadShapes}
    \cup {[file |-> "ok", shape |-> sh, convs |-> cs] :
            sh \in GoodShapes, cs \in UNION {[1..n -> MainConvs] : n \in 0..MaxConvs}}

\* A file on disk: complete when its content was written in full, not
\* complete when the write failed after the file was opened (empty or cut).
MdFile(stem, complete) ==
    [kind |-> "markdown", stem |-> stem, complete |-> complete]
AllConversationsJson(complete) ==
    [kind |-> "all_conversations.json", stem |-> <<>>, complete |-> complete]
PairsJsonl(complete) ==
    [kind |-> "pairs.jsonl", stem |-> <<>>, complete |-> complete]

\* Opening a path for writing creates the file or truncates the one there.
PutFile(fs, f) == {g \in fs : ~(g.kind = f.kind /\ g.stem = f.stem)} \cup {f}

\* How a write ends: in full, failing at open (nothing on disk changes), or
\* failing after the open (the file is there, empty or cut).
WriteOutcomes == {"ok", "fail_open", "fail_write"}
Written(fs, outcome, f) ==
    IF outcome = "fail_open" THEN fs
    ELSE PutFile(fs, [f EXCEPT !.complete = (outcome = "ok")])

LogEntry(level, msg) == [level |-> level, msg |-> msg]

IdleMain ==
    /\ mpc = "idle" /\ doc = <<>> /\ queue = <<>> /\ dirs = {} /\ files = {}
    /\ log = <<>> /\ exit_code = 0 /\ all_convos = <<>> /\ all_pairs = <<>>
    /\ skipped = 0

MainStart ==
    /\ mpc = "start" /\ doc \in Docs /\ queue = <<>> /\ dirs = {} /\ files = {}
    /\ log = <<>> /\ exit_code = 0 /\ all_convos = <<>> /\ all_pairs = <<>>
    /\ skipped = 0

\* How the two mkdir calls end: both succeed, the first raises (the output
\* path is a regular file or cannot be created), or the second raises (the
\* markdown directory's path is taken by a file or cannot be created).
MkdirOutcomes == {"ok", "fail_outdir", "fail_md_dir"}

\* Lines 211-214: the output directories are created before the input is
\* read.  An exception of mkdir is not caught: the process ends with a
\* traceback and status 1, nothing logged and the input not read.
MainMkdirs ==
    /\ mpc = "start"
    /\ \E mk \in MkdirOutcomes :
         IF mk = "ok"
         THEN /\ dirs' = {"outdir", "markdown_by_conversation"}
              /\ mpc' = "load"
              /\ UNCHANGED exit_code
         ELSE /\ dirs' = IF mk = "fail_outdir" THEN {} ELSE {"outdir"}
              /\ mpc' = "exited"
              /\ exit_code' = 1
    /\ UNCHANGED <<doc, queue, files, log, all_convos, all_pairs, skipped,
                   cleanVars, extractVars, flattenVars, pairVars>>

\* main returns: the process ends with status 0 (nothing calls sys.exit).
Returned(entry) ==
    /\ log' = Append(log, entry)
    /\ mpc' = "exited"
    /\ exit_code' = 0

\* Lines 217-229.
MainLoad ==
    /\ mpc = "load"
    /\ IF doc.file = "absent"
       THEN Returned(LogEntry("error", "Input file not found"))
       ELSE IF doc.file = "badjson"
       THEN Returned(LogEntry("error", "Failed to parse JSON"))
       ELSE IF doc.file = "unreadable"
       THEN Returned(LogEntry("error", "Error reading input file"))
       ELSE mpc' = "shape" /\ UNCHANGED <<log, exit_code>>
    /\ UNCHANGED <<doc, queue, dirs, files, all_convos, all_pairs, skipped,
                   cleanVars, extractVars, flattenVars, pairVars>>

\* Lines 232-242.
MainShape ==
    /\ mpc = "shape"
    /\ IF doc.shape \in GoodShapes
       THEN queue' = doc.convs /\ mpc' = "loop" /\ UNCHANGED <<log, exit_code>>
       ELSE Returned(LogEntry("error", "Invalid format")) /\ UNCHANGED queue
    /\ UNCHANGED <<doc, dirs, files, all_convos, all_pairs, skipped,
                   cleanVars, extractVars, flattenVars, pairVars>>

WithPairTitle(ps, ttl) ==
    [i \in 1..Len(ps) |->
        [prompt |-> ps[i].prompt, completion |-> ps[i].completion, title |-> ttl]]

\* One iteration of the loop of lines 244-272.  An exception of
\* extract_messages_from_mapping is not caught: the process ends with a
\* traceback and status 1.  md: how md_file.write_text (line 262) ends.
MainConv ==
    /\ mpc = "loop"
    /\ queue # <<>>
    /\ \E md \in WriteOutcomes :
         LET c     == Head(queue)
             title == TitleOf(c)
             ms    == extract_messages_from_mapping(c)
         IN IF ExtractRaises(c)
            THEN /\ mpc' = "exited" /\ exit_code' = 1
                 /\ UNCHANGED <<queue, files, log, all_convos, all_pairs, skipped>>
            ELSE IF ms = <<>>
            THEN /\ skipped' = skipped + 1
                 /\ queue' = Tail(queue)
                 /\ UNCHANGED <<mpc, exit_code, files, log, all_convos, all_pairs>>
            ELSE /\ files' = Written(files, md,
                                     MdFile(sanitize_filename(title), TRUE))
                 /\ IF md = "ok" THEN UNCHANGED log
                    ELSE log' = Append(log, LogEntry("warning", "Failed to write markdown"))
                 /\ all_convos' = Append(all_convos, [title |-> title, messages |-> ms])
                 /\ all_pairs' = all_pairs \o WithPairTitle(messages_to_pairs(ms), title)
                 /\ queue' = Tail(queue)
                 /\ UNCHANGED <<mpc, exit_code, skipped>>
    /\ UNCHANGED <<doc, dirs, cleanVars, extractVars, flattenVars, pairVars>>

\* Lines 275-294.  json: how the write of all_conversations.json (line 276)
\* ends; jsonl: how the writes to pairs.jsonl (lines 280-282) end, which are
\* reached only when the first write succeeded.
MainWrite ==
    /\ mpc = "loop"
    /\ queue = <<>>
    /\ \E json \in WriteOutcomes, jsonl \in WriteOutcomes :
         LET first == Written(files, json, AllConversationsJson(TRUE))
         IN IF json # "ok"
            THEN /\ jsonl = "ok"
                 /\ files' = first
                 /\ Returned(LogEntry("error", "Failed to write output files"))
            ELSE /\ files' = Written(first, jsonl, PairsJsonl(TRUE))
                 /\ IF jsonl = "ok"
                    THEN Returned(LogEntry("info", "Export completed"))
                    ELSE Returned(LogEntry("error", "Failed to write output files"))
    /\ UNCHANGED <<doc, queue, dirs, all_convos, all_pairs, skipped,
                   cleanVars, extractVars, flattenVars, pairVars>>

---------------------------------------------------------------------------
(* Specifications: one per component, the others idle.                     *)

NextClean == CleanOnce \/ CleanTwice
InitClean == CleanStart /\ IdleExtract /\ IdleFlatten /\ IdlePairs /\ IdleMain
SpecClean == InitClean /\ [][NextClean]_vars

InitWalk ==
    /\ \E c \in WalkConvs : ExtractEntry(c)
    /\ IdleClean /\ IdleFlatten /\ IdlePairs /\ IdleMain
\* The interpreter keeps running the while loop: an enabled step of the walk
\* is eventually taken.
WalkNext == WalkStep \/ WalkRaise \/ WalkEnd
SpecWalk == InitWalk /\ [][NextExtract]_vars /\ WF_vars(WalkNext)

InitExtract ==
    /\ \E c \in ExtractConvs : ExtractEntry(c)
    /\ IdleClean /\ IdleFlatten /\ IdlePairs /\ IdleMain
SpecExtract == InitExtract /\ [][NextExtract]_vars

NextFlatten == FlattenParts
InitFlatten == FlattenStart /\ IdleClean /\ IdleExtract /\ IdlePairs /\ IdleMain
SpecFlatten == InitFlatten /\ [][NextFlatten]_vars

NextPairs == PairStep \/ PairReturn
InitPairs == PairsStart /\ IdleClean /\ IdleExtract /\ IdleFlatten /\ IdleMain
SpecPairs == InitPairs /\ [][NextPairs]_vars

Next == MainMkdirs \/ MainLoad \/ MainShape \/ MainConv \/ MainWrite
Init == MainStart /\ IdleClean /\ IdleExtract /\ IdleFlatten /\ IdlePairs
Spec == Init /\ [][Next]_vars

---------------------------------------------------------------------------
(* Properties of the mapping traversal (SpecWalk).                         *)

NoDuplicates(q) == \A i, j \in 1..Len(q) : q[i] = q[j] => i = j

Walked == xpc \in {"extract", "done"}

\* The keys reachable from the start by parent links, the start included.
RECURSIVE ParentClosure(_, _, _)
ParentClosure(c, set, n) ==
    IF n = 0 THEN set
    ELSE ParentClosure(c, set \cup ({c.map[k].parent : k \in set} \cap MappingKeys(c)), n - 1)
AncestorsOf(c) ==
    ParentClosure(c, {c.current_node} \cap MappingKeys(c), Cardinality(MappingKeys(c)))

\* C1: on every mapping (cycles, self-loops and stale parents included) and
\* every start, the backward walk ends (its loop is left, by its end or by
\* an exception), no key is ever appended twice, and the collected sequence
\* never has more nodes than the mapping has keys.
CycleSafety ==
    /\ <>(xpc # "walk")
    /\ [](/\ NoDuplicates(ordered_nodes)
          /\ Len(ordered_nodes) <= Cardinality(MappingKeys(conv)))

\* The walk was stopped by the cycle guard: the parent reached was visited.
CycleStopped ==
    /\ xpc = "extract" /\ Truthy(current) /\ current \in seen
    /\ Len(ordered_nodes) >= 2

\* C2: after the walk, ordered_nodes is the ancestor chain of current_node
\* from root to leaf: empty exactly when current_node is None, empty or not
\* a key; otherwise it ends with current_node, each node is the parent of
\* the next, the first node is the first ancestor (from the leaf) whose
\* parent is absent, no key, or already visited, and only ancestors of
\* current_node appear.
AncestorChain ==
    Walked =>
      LET p     == ordered_nodes
          n     == Len(p)
          keys  == MappingKeys(conv)
          start == conv.current_node
          par(i) == conv.map[p[i]].parent
          Stops(i) == \/ ~Truthy(par(i))
                      \/ par(i) \notin keys
                      \/ \E j \in i..n : p[j] = par(i)
      IN /\ (p = <<>>) <=> (~Truthy(start) \/ start \notin keys)
         /\ p # <<>> =>
              /\ p[n] = start
              /\ \A i \in 1..(n - 1) : par(i + 1) = p[i]
              /\ Stops(1)
              /\ \A i \in 2..n : ~Stops(i)
         /\ \A i \in 1..n : p[i] \in AncestorsOf(conv)

\* A path of two or more nodes that leaves a sibling branch aside.
SiblingIgnored ==
    /\ xpc = "done" /\ Len(ordered_nodes) >= 2
    /\ \E k \in MappingKeys(conv) :
         /\ \A i \in 1..Len(ordered_nodes) : ordered_nodes[i] # k
         /\ conv.map[k].parent = ordered_nodes[1]

---------------------------------------------------------------------------
(* Properties of clean_text (SpecClean).                                   *)

\* C3: clean_text is idempotent: applied to its own output it changes
\* nothing.
CleanIdempotent == cpc = "twice" => out2 = out

\* C4: the output of clean_text has no leading or trailing whitespace, no
\* carriage return, no tab, and no three consecutive line feeds.
CleanOutputShape ==
    cpc \in {"once", "twice"} =>
      /\ out # <<>> => Head(out) \notin WhiteSpace /\ out[Len(out)] \notin WhiteSpace
      /\ ~Contains(out, CR)
      /\ ~Contains(out, TAB)
      /\ ~HasRun(out, LF, 3)

\* An input with a run of three line feeds inside was capped to two.
NewlinesCapped ==
    /\ cpc = "once" /\ s # NoneStr
    /\ HasRun(s, LF, 3) /\ HasRun(out, LF, 2)

---------------------------------------------------------------------------
(* Properties of messages_to_pairs (SpecPairs).                            *)

NonEmptyTexts(q) == SelectSeq(q, LAMBDA x : x # <<>>)

\* The last assistant message before position j (0: none).
PrevAssistant(ms, j) ==
    LET A == {k \in 1..(j - 1) : ms[k].role = "assistant"}
    IN IF A = {} THEN 0 ELSE CHOOSE k \in A : \A l \in A : l <= k

\* The texts of the user messages between the previous assistant message
\* (or the start) and position j.
UserTextsBefore(ms, j) ==
    LET a == PrevAssistant(ms, j)
    IN [i \in 1..(j - 1 - a) |-> ms[a + i].text]

\* The pairs of the first n messages when every assistant message preceded
\* by a user message yields a pair.
RECURSIVE PairsOfAnyText(_, _)
PairsOfAnyText(ms, n) ==
    IF n = 0 THEN <<>>
    ELSE PairsOfAnyText(ms, n - 1) \o
         (IF ms[n].role = "assistant" /\ UserTextsBefore(ms, n) # <<>>
          THEN <<[prompt |-> Join(UserTextsBefore(ms, n), <<LF, LF>>),
                  completion |-> ms[n].text]>>
          ELSE <<>>)

\* The same, counting only the messages whose text is non-empty.
RECURSIVE PairsOfNonEmptyText(_, _)
PairsOfNonEmptyText(ms, n) ==
    IF n = 0 THEN <<>>
    ELSE PairsOfNonEmptyText(ms, n - 1) \o
         (IF /\ ms[n].role = "assistant" /\ ms[n].text # <<>>
             /\ NonEmptyTexts(UserTextsBefore(ms, n)) # <<>>
          THEN <<[prompt |-> Join(NonEmptyTexts(UserTextsBefore(ms, n)), <<LF, LF>>),
                  completion |-> ms[n].text]>>
          ELSE <<>>)

\* C5 as stated: for every message sequence the result holds, in order, one
\* pair for each assistant message with at least one user message since the
\* previous assistant message, its prompt those user texts joined by a
\* blank line and its completion the assistant text; nothing else yields a
\* pair.
PairGroupingAnyText ==
    ppc = "done" => pairs = PairsOfAnyText(messages, Len(messages))

\* C5 amended: the same with "user message" and "assistant message" read
\* as messages with non-empty text: one pair for each assistant message
\* with non-empty text that has at least one user message with non-empty
\* text since the previous assistant message (of any text), its prompt
\* those non-empty user texts joined by a blank line.  The accumulator is
\* cleared by every assistant message and holds the non-empty user texts
\* since the last one; trailing user messages yield no pair.
PairGrouping ==
    ppc \in {"loop", "done"} =>
      /\ pairs = PairsOfNonEmptyText(messages, pidx - 1)
      /\ buffer_user = NonEmptyTexts(UserTextsBefore(messages, pidx))
      /\ (pidx > 1 /\ messages[pidx - 1].role = "assistant") => buffer_user = <<>>

\* Two user turns were merged into one prompt, an assistant message without
\* a user turn was dropped and a trailing user message was discarded.
MergedPrompt ==
    /\ ppc = "done" /\ Len(messages) = 4 /\ Len(pairs) = 1
    /\ Contains(pairs[1].prompt, LF)
    /\ \/ messages[4].role = "user" /\ messages[4].text # <<>>
       \/ messages[1].role = "assistant" /\ messages[1].text # <<>>

\* C6: every pair emitted has a non-empty prompt and a non-empty
\* completion, whatever the texts of the messages.
PairNonEmpty ==
    \A i \in 1..Len(pairs) : pairs[i].prompt # <<>> /\ pairs[i].completion # <<>>

\* A pair was emitted from a sequence that holds a user message and an
\* assistant message with empty text.
PairAmongEmptyTexts ==
    /\ ppc = "done" /\ pairs # <<>>
    /\ \E i, j \in 1..Len(messages) :
         /\ messages[i].role = "user" /\ messages[i].text = <<>>
         /\ messages[j].role = "assistant" /\ messages[j].text = <<>>

---------------------------------------------------------------------------
(* Properties of the message extractor (SpecExtract).                      *)

\* The author role as the message declares it.
DeclaredRole(m) == IF m.author = "none" THEN "" ELSE m.role

NormalizedText(m) == clean_text(Flatten(PartsOf(m)))

\* The per-node policy as the specification states it.
Kept(m) ==
    /\ m.payload
    /\ ~(DeclaredRole(m) = "system" /\ ~(m.metadata = "dict" /\ m.flag))
    /\ CTypeOf(m) \in {"text", "multimodal_text"}
    /\ NormalizedText(m) # <<>>

CollapsedRole(m) ==
    IF DeclaredRole(m) \in {"assistant", "tool", "ChatGPT"} THEN "assistant" ELSE "user"

RECURSIVE PolicyMessages(_, _)
PolicyMessages(c, keys) ==
    IF keys = <<>> THEN <<>>
    ELSE LET m == c.map[Head(keys)].message
         IN (IF Kept(m)
             THEN <<[role |-> CollapsedRole(m), text |-> NormalizedText(m)]>>
             ELSE <<>>) \o PolicyMessages(c, Tail(keys))

\* C7: the result holds, in path order, exactly one message for each
\* traversed node that has a payload, is not an unflagged system message,
\* has content_type text or multimodal_text and a non-empty normalized
\* text; its role is assistant exactly when the declared author is
\* assistant, tool or ChatGPT, and user otherwise; its text is non-empty.
ExtractPolicy ==
    xpc = "done" =>
      /\ msgs = PolicyMessages(conv, ordered_nodes)
      /\ \A i \in 1..Len(msgs) :
           msgs[i].text # <<>> /\ msgs[i].role \in {"user", "assistant"}

\* A flagged system message came out as user, followed by a tool message
\* that came out as assistant.
RolesCollapsed ==
    /\ xpc = "done" /\ Len(ordered_nodes) = 2 /\ Len(msgs) = 2
    /\ conv.map[ordered_nodes[1]].message.role = "system"
    /\ msgs[1].role = "user"
    /\ conv.map[ordered_nodes[2]].message.role = "tool"
    /\ msgs[2].role = "assistant"

\* C9: whatever fields of the conversation are missing or null, the call
\* completes with a message list: it never raises.
NeverRaises == xpc # "raised"

---------------------------------------------------------------------------
(* Properties of the flattening (SpecFlatten).                             *)

PartTexts(ps) == [i \in 1..Len(ps) |-> ps[i].text]

\* C10 as stated: the blob is the join by single newlines of every str part
\* that is non-empty (a part of whitespace only included) and of the text
\* of every dict part whose text is non-empty, in order.
FlattenVerbatim ==
    fpc = "joined" =>
      blob = Join(PartTexts(SelectSeq(parts, LAMBDA p :
                    /\ p.kind \in {"str", "dict"}
                    /\ p.text # NoneStr /\ p.text # <<>>)), <<LF>>)

\* C10 amended: a str part is taken when it is non-empty after stripping
\* whitespace (a part of whitespace only contributes nothing); a dict part
\* when its text is non-empty, whitespace only included.
FlattenStripped ==
    fpc = "joined" =>
      blob = Join(PartTexts(SelectSeq(parts, LAMBDA p :
                    \/ p.kind = "str" /\ Strip(p.text) # <<>>
                    \/ p.kind = "dict" /\ p.text # NoneStr /\ p.text # <<>>)), <<LF>>)

\* A str part of whitespace only was dropped between parts that were taken,
\* one of them the text of a dict part.
WhitespacePartDropped ==
    /\ fpc = "joined" /\ Len(parts) = 3
    /\ parts[1].kind = "dict" /\ parts[1].content_type = "" /\ parts[1].text = <<98>>
    /\ parts[2] = StrPart(<<SP>>)
    /\ parts[3] = StrPart(<<97>>)
    /\ blob = <<98, LF, 97>>

---------------------------------------------------------------------------
(* Properties of main (Spec).                                              *)

HasError == \E i \in 1..Len(log) : log[i].level = "error"

\* The run got as far as the input: both output directories were made.
ReachedInput == dirs = {"outdir", "markdown_by_conversation"}

\* C8: a decoded document that is neither an object with a conversations
\* key nor an array ends the run with an error reported, a non-zero exit
\* status, no conversation processed and no artifact written.
MalformedDocFatal ==
    (mpc = "exited" /\ ReachedInput /\ doc.file = "ok" /\ doc.shape \in BadShapes) =>
      /\ HasError
      /\ exit_code # 0
      /\ all_convos = <<>> /\ all_pairs = <<>> /\ skipped = 0
      /\ files = {}

====
